---- MODULE Spec2Model ----
(***************************************************************************)
(* A model of the to-do application: the task engine of lib/todos.ts, the *)
(* persistence codec of lib/storage.ts and the event handlers of App.tsx. *)
(*                                                                         *)
(* Strings are sequences of one-character strings, so that trim(),        *)
(* template literals and localeCompare() are computed character by        *)
(* character.  JSON values are tagged records.  Numbers are integers,     *)
(* with one value standing for the non-finite number a JSON text such as  *)
(* 1e999 parses to.                                                        *)
(***************************************************************************)
EXTENDS Integers, Sequences, FiniteSets, TLC

(***************************************************************************)
(* Bounds of the model.                                                    *)
(***************************************************************************)
\* Date.now() takes the values 1..MaxNow.
MaxNow == 2
\* Number of user intents (submit, toggle click, delete click) in a session.
MaxOps == 3

(***************************************************************************)
(* Strings.                                                                *)
(***************************************************************************)
Digits == <<"0", "1", "2", "3", "4", "5", "6", "7", "8", "9">>

\* UTF-16 code units of the characters the model uses; this is the order
\* of a plain lexicographic (code unit) string comparison.
CodeUnit ==
    (" " :> 32) @@ ("-" :> 45) @@
    ("0" :> 48) @@ ("1" :> 49) @@ ("2" :> 50) @@ ("3" :> 51) @@ ("4" :> 52) @@
    ("5" :> 53) @@ ("6" :> 54) @@ ("7" :> 55) @@ ("8" :> 56) @@ ("9" :> 57) @@
    ("B" :> 66) @@
    ("a" :> 97) @@ ("c" :> 99) @@ ("d" :> 100) @@ ("e" :> 101) @@ ("l" :> 108) @@
    ("m" :> 109) @@ ("n" :> 110) @@ ("o" :> 111) @@ ("p" :> 112) @@ ("r" :> 114) @@
    ("t" :> 116)

\* Position of each character in the collation order String.prototype
\* .localeCompare uses (white space, punctuation, digits, then letters in
\* alphabetical order whatever their case).  No two characters of the model
\* share a letter, so the first difference decides the comparison.
CollationRank ==
    (" " :> 1) @@ ("-" :> 2) @@
    ("0" :> 10) @@ ("1" :> 11) @@ ("2" :> 12) @@ ("3" :> 13) @@ ("4" :> 14) @@
    ("5" :> 15) @@ ("6" :> 16) @@ ("7" :> 17) @@ ("8" :> 18) @@ ("9" :> 19) @@
    ("a" :> 21) @@ ("B" :> 22) @@ ("c" :> 23) @@ ("d" :> 24) @@ ("e" :> 25) @@
    ("l" :> 32) @@ ("m" :> 33) @@ ("n" :> 34) @@ ("o" :> 35) @@ ("p" :> 36) @@
    ("r" :> 38) @@ ("t" :> 40)

Sign(n) == IF n > 0 THEN 1 ELSE IF n < 0 THEN -1 ELSE 0

SetMin(S) == CHOOSE m \in S : \A k \in S : m <= k

SetMax(S) == CHOOSE m \in S : \A k \in S : m >= k

\* Comparison of two strings by the first character they differ in, under
\* the character order rank; a proper prefix comes first.
CompareBy(rank, a, b) ==
    LET n == IF Len(a) < Len(b) THEN Len(a) ELSE Len(b)
        diff == {i \in 1..n : a[i] # b[i]}
    IN  IF diff = {} THEN Sign(Len(a) - Len(b))
        ELSE Sign(rank[a[SetMin(diff)]] - rank[b[SetMin(diff)]])

\* a.localeCompare(b)
localeCompare(a, b) == CompareBy(CollationRank, a, b)

\* a > b in the lexicographic order of the code units
LexGreater(a, b) == CompareBy(CodeUnit, a, b) > 0

\* String.prototype.trim
trim(s) ==
    LET keep == {i \in 1..Len(s) : s[i] # " "}
    IN  IF keep = {} THEN <<>> ELSE SubSeq(s, SetMin(keep), SetMax(keep))

\* `${n}` for a non-negative integer n
RECURSIVE NumberToString(_)
NumberToString(n) ==
    IF n < 10 THEN <<Digits[n + 1]>>
    ELSE NumberToString(n \div 10) \o <<Digits[(n % 10) + 1]>>

(***************************************************************************)
(* Numbers and null.                                                       *)
(***************************************************************************)
\* The non-finite number: greater than every finite number of the model.
Infinity == 1000 * (MaxNow + 1)

\* Number.isFinite
isFinite(n) == n # Infinity

\* A finite number so large (1e300) that adding 1 to it yields the number
\* itself in double arithmetic.
Huge == 999

\* n + 1 in double arithmetic
plusOne(n) == IF n = Huge THEN Huge ELSE n + 1

\* null, and a present value, of a field typed `number | null`
Null == <<>>

Some(n) == <<n>>

(***************************************************************************)
(* Array.prototype.sort: a stable sort (ECMAScript 2019) of s under the    *)
(* comparator cmp, which puts a before b when cmp(a, b) < 0.               *)
(***************************************************************************)
IsSortedFrom(s, i, cmp(_, _)) == \A j \in i..(Len(s) - 1) : cmp(s[j], s[j + 1]) <= 0

\* x put into the sorted sequence s, before every element it does not follow
InsertSorted(x, s, cmp(_, _)) ==
    LET p == Cardinality({j \in 1..Len(s) : cmp(x, s[j]) > 0})
    IN  SubSeq(s, 1, p) \o <<x>> \o SubSeq(s, p + 1, Len(s))

\* The stable sort by ranks: element i goes to the place after the elements
\* that come before it and the equal elements that precede it in s.
RankSort(s, cmp(_, _)) ==
    LET place == [i \in 1..Len(s) |->
                    1 + Cardinality({j \in 1..Len(s) :
                            \/ cmp(s[j], s[i]) < 0
                            \/ cmp(s[j], s[i]) = 0 /\ j < i})]
        at == [k \in 1..Len(s) |-> CHOOSE i \in 1..Len(s) : place[i] = k]
    IN  <<>> \o [k \in 1..Len(s) |-> s[at[k]]]

StableSort(s, cmp(_, _)) ==
    IF IsSortedFrom(s, 1, cmp) THEN s
    ELSE IF IsSortedFrom(s, 2, cmp) THEN InsertSorted(s[1], Tail(s), cmp)
    ELSE RankSort(s, cmp)

\* Array.prototype.slice(0, n)
slice0(s, n) == SubSeq(s, 1, IF Len(s) < n THEN Len(s) ELSE n)

\* Array.prototype.filter, given the set of the indices that pass the test
filter(s, keep) ==
    IF keep = 1..Len(s) THEN s
    ELSE LET nth == [k \in 1..Cardinality(keep) |->
                        CHOOSE i \in keep : Cardinality({j \in keep : j <= i}) = k]
         IN  <<>> \o [k \in 1..Cardinality(keep) |-> s[nth[k]]]

(***************************************************************************)
(* JSON values: what JSON.parse yields and JSON.stringify writes.          *)
(***************************************************************************)
JUndefined == [t |-> "undefined"]

JNull == [t |-> "null"]

JBool(b) == [t |-> "bool", b |-> b]

JNum(n) == [t |-> "num", n |-> n]

JStr(s) == [t |-> "str", s |-> s]

JArr(a) == [t |-> "arr", a |-> a]

JObj(o) == [t |-> "obj", o |-> o]

\* candidate.f of a parsed value: undefined unless it is an object with f
Field(v, f) ==
    IF v.t = "obj" /\ f \in DOMAIN v.o THEN v.o[f] ELSE JUndefined

\* JSON.stringify of a number: a non-finite number is written as null
StringifyNumber(n) == IF isFinite(n) THEN JNum(n) ELSE JNull

\* JSON.stringify of a `number | null`
StringifyNullable(v) == IF v = Null THEN JNull ELSE StringifyNumber(v[1])

(***************************************************************************)
(* lib/todos.ts                                                            *)
(***************************************************************************)
TODO_STORAGE_KEY == <<"todoapp:v1">>

\* The comparator of sortTodos
compareTodos(a, b) ==
    IF b.createdAt # a.createdAt THEN b.createdAt - a.createdAt
    ELSE localeCompare(b.id, a.id)

sortTodos(todos) == StableSort(todos, compareTodos)

normalizeTitle(title) == trim(title)

\* A faulty createTodo that tests and stores the title as typed: C6 fails with it.
createTodoUntrimmed(id, title, createdAt) ==
    IF title = <<>> THEN Null
    ELSE Some([id |-> id, title |-> title, completed |-> FALSE,
               createdAt |-> createdAt, completedAt |-> Null])

\* Null when the title is rejected
createTodo(id, title, createdAt) ==
    IF normalizeTitle(title) = <<>> THEN Null
    ELSE Some([id |-> id, title |-> normalizeTitle(title), completed |-> FALSE,
               createdAt |-> createdAt, completedAt |-> Null])

\* A faulty addTodo that prepends without sorting: C1 fails with it.
addTodoUnsorted(todos, todo) == <<todo>> \o todos

addTodo(todos, todo) == sortTodos(<<todo>> \o todos)

\* A faulty toggleTodo that leaves completedAt in place when a task is
\* reopened: C17 fails with it.
toggleTodoKeepsStamp(todos, id, now0) ==
    <<>> \o [i \in 1..Len(todos) |->
        IF todos[i].id # id THEN todos[i]
        ELSE [todos[i] EXCEPT !.completed = ~todos[i].completed,
                              !.completedAt = IF ~todos[i].completed
                                              THEN Some(now0) ELSE todos[i].completedAt]]

toggleTodo(todos, id, now0) ==
    <<>> \o [i \in 1..Len(todos) |->
        IF todos[i].id # id THEN todos[i]
        ELSE [todos[i] EXCEPT !.completed = ~todos[i].completed,
                              !.completedAt = IF ~todos[i].completed
                                              THEN Some(now0) ELSE Null]]

deleteTodo(todos, id) == filter(todos, {i \in 1..Len(todos) : todos[i].id # id})

\* The test a stored record passes to be kept by coerceTodos
todoAccepted(item) ==
    /\ item.t = "obj"
    /\ Field(item, "id").t = "str"
    /\ Field(item, "title").t = "str"
    /\ Field(item, "completed").t = "bool"
    /\ Field(item, "createdAt").t = "num"
    /\ normalizeTitle(Field(item, "title").s) # <<>>

\* A faulty coerceTodo that forgets completedAt: C3 fails with it.
coerceTodoForgetsStamp(item) ==
    [id |-> Field(item, "id").s,
     title |-> normalizeTitle(Field(item, "title").s),
     completed |-> Field(item, "completed").b,
     createdAt |-> Field(item, "createdAt").n,
     completedAt |-> Null]

coerceTodo(item) ==
    [id |-> Field(item, "id").s,
     title |-> normalizeTitle(Field(item, "title").s),
     completed |-> Field(item, "completed").b,
     createdAt |-> Field(item, "createdAt").n,
     completedAt |->
        IF /\ Field(item, "completed").b
           /\ Field(item, "completedAt").t = "num"
           /\ isFinite(Field(item, "completedAt").n)
        THEN Some(Field(item, "completedAt").n) ELSE Null]

coerceTodos(raw) ==
    IF raw.t # "arr" THEN <<>>
    ELSE LET kept == filter(raw.a, {i \in 1..Len(raw.a) : todoAccepted(raw.a[i])})
         IN  sortTodos(<<>> \o [i \in 1..Len(kept) |-> coerceTodo(kept[i])])

(***************************************************************************)
(* App.tsx: activity feed and completed log                                *)
(***************************************************************************)
ActivityCap == 200

CompletedLogCap == 300

\* The characters of an ActivityType
TypeName(type) ==
    CASE type = "added" -> <<"a", "d", "d", "e", "d">>
      [] type = "completed" -> <<"c", "o", "m", "p", "l", "e", "t", "e", "d">>
      [] type = "reopened" -> <<"r", "e", "o", "p", "e", "n", "e", "d">>
      [] type = "deleted" -> <<"d", "e", "l", "e", "t", "e", "d">>

createActivity(type, title, at, seed) ==
    [id |-> NumberToString(at) \o <<"-">> \o seed \o <<"-">> \o TypeName(type),
     type |-> type, title |-> title, at |-> at]

\* The comparator of prependActivity
compareActivity(a, b) ==
    IF b.at # a.at THEN b.at - a.at ELSE localeCompare(b.id, a.id)

\* A faulty prependActivity that never cuts the feed: C10 fails with it.
prependActivityUncapped(current, entry) ==
    StableSort(<<entry>> \o current, compareActivity)

prependActivity(current, entry) ==
    slice0(StableSort(<<entry>> \o current, compareActivity), ActivityCap)

\* The comparator of prependCompletedLog and of coerceCompletedLog
compareCompletedAt(a, b) == b.completedAt - a.completedAt

\* A variant that puts the new entry at the end and does not sort: C21 fails
\* with it.
prependCompletedLogAppended(current, entry) ==
    slice0(current \o <<entry>>, CompletedLogCap)

prependCompletedLog(current, entry) ==
    slice0(StableSort(<<entry>> \o current, compareCompletedAt), CompletedLogCap)

(***************************************************************************)
(* lib/storage.ts                                                          *)
(***************************************************************************)
DEFAULT_STATE == [todos |-> <<>>, sequence |-> 0, completedLog |-> <<>>, activity |-> <<>>]

StoredActivityCap == 200

logEntryAccepted(item) ==
    /\ item.t = "obj"
    /\ Field(item, "id").t = "str"
    /\ Field(item, "title").t = "str"
    /\ Field(item, "completedAt").t = "num"
    /\ isFinite(Field(item, "completedAt").n)

coerceCompletedLog(raw) ==
    IF raw.t # "arr" THEN <<>>
    ELSE LET kept == filter(raw.a, {i \in 1..Len(raw.a) : logEntryAccepted(raw.a[i])})
             parsed == <<>> \o [i \in 1..Len(kept) |->
                            [id |-> Field(kept[i], "id").s,
                             title |-> trim(Field(kept[i], "title").s),
                             completedAt |-> Field(kept[i], "completedAt").n]]
             titled == filter(parsed, {i \in 1..Len(parsed) : Len(parsed[i].title) > 0})
         IN  StableSort(titled, compareCompletedAt)

activityAccepted(item) ==
    /\ item.t = "obj"
    /\ Field(item, "id").t = "str"
    /\ Field(item, "title").t = "str"
    /\ Field(item, "at").t = "num"
    /\ isFinite(Field(item, "at").n)
    /\ Field(item, "type").t = "str"
    /\ Field(item, "type").s \in {TypeName(ty) : ty \in {"added", "completed", "reopened", "deleted"}}

\* The comparator of coerceActivity: by `at` alone
compareAt(a, b) == b.at - a.at

\* The list coerceActivity holds before its slice(0, 200)
activityBeforeSlice(raw) ==
    IF raw.t # "arr" THEN <<>>
    ELSE LET kept == filter(raw.a, {i \in 1..Len(raw.a) : activityAccepted(raw.a[i])})
             parsed == <<>> \o [i \in 1..Len(kept) |->
                            [id |-> Field(kept[i], "id").s,
                             type |-> CHOOSE ty \in {"added", "completed", "reopened", "deleted"} :
                                          TypeName(ty) = Field(kept[i], "type").s,
                             title |-> trim(Field(kept[i], "title").s),
                             at |-> Field(kept[i], "at").n]]
             titled == filter(parsed, {i \in 1..Len(parsed) : Len(parsed[i].title) > 0})
         IN  StableSort(titled, compareAt)

coerceActivity(raw) == slice0(activityBeforeSlice(raw), StoredActivityCap)

isRecord(value) == value.t \in {"obj", "arr"}

\* A faulty coerceSequence that takes any number: C12 fails with it.
coerceSequenceAnyNumber(raw) == IF raw.t = "num" THEN raw.n ELSE 0

coerceSequence(raw) == IF raw.t = "num" /\ isFinite(raw.n) THEN raw.n ELSE 0

\* What localStorage.getItem returns: null, or a text that is empty, is not
\* JSON, or is the JSON text of the value v.
NoItem == [kind |-> "none"]

EmptyText == [kind |-> "empty"]

GarbageText == [kind |-> "garbage"]

JsonText(v) == [kind |-> "json", v |-> v]

\* A faulty parseState that decodes a payload of any version number: C13
\* fails with it.
parseStateAnyVersion(raw) ==
    IF raw.kind # "json" THEN Null
    ELSE IF ~isRecord(raw.v) \/ Field(raw.v, "version").t # "num" THEN Null
    ELSE Some([todos |-> coerceTodos(Field(raw.v, "todos")),
               sequence |-> coerceSequence(Field(raw.v, "sequence")),
               completedLog |-> IF Field(raw.v, "version").n # 1
                                THEN coerceCompletedLog(Field(raw.v, "completedLog")) ELSE <<>>,
               activity |-> IF Field(raw.v, "version").n # 1
                            THEN coerceActivity(Field(raw.v, "activity")) ELSE <<>>])

\* Null, or Some(state)
parseState(raw) ==
    IF raw.kind # "json" THEN Null
    ELSE IF ~isRecord(raw.v) \/ Field(raw.v, "version").t # "num" THEN Null
    ELSE IF Field(raw.v, "version").n \in {1, 2}
    THEN Some([todos |-> coerceTodos(Field(raw.v, "todos")),
               sequence |-> coerceSequence(Field(raw.v, "sequence")),
               completedLog |-> IF Field(raw.v, "version").n = 2
                                THEN coerceCompletedLog(Field(raw.v, "completedLog")) ELSE <<>>,
               activity |-> IF Field(raw.v, "version").n = 2
                            THEN coerceActivity(Field(raw.v, "activity")) ELSE <<>>])
    ELSE Null

toLowerCase(s) == <<>> \o [i \in 1..Len(s) |-> IF s[i] = "B" THEN "b" ELSE s[i]]

normalizeUsernameForKey(username) == toLowerCase(trim(username))

\* A faulty getTodoStorageKeyForUser that leaves the username out of the
\* key: C15 fails with it.
getTodoStorageKeyShared(username) == TODO_STORAGE_KEY

getTodoStorageKeyForUser(username) ==
    IF normalizeUsernameForKey(username) = <<>> THEN TODO_STORAGE_KEY
    ELSE TODO_STORAGE_KEY \o <<":">> \o normalizeUsernameForKey(username)

\* loadTodoState(storageKey), reading the storage medium store
loadTodoState(store, storageKey) ==
    IF parseState(store[storageKey]) # Null THEN parseState(store[storageKey])[1]
    ELSE IF storageKey # TODO_STORAGE_KEY /\ parseState(store[TODO_STORAGE_KEY]) # Null
    THEN parseState(store[TODO_STORAGE_KEY])[1]
    ELSE DEFAULT_STATE

\* JSON.stringify(payload) of saveTodoState
stringifyPayload(st) ==
    JObj([version |-> JNum(2),
          todos |-> JArr(<<>> \o [i \in 1..Len(st.todos) |->
                        JObj([id |-> JStr(st.todos[i].id),
                              title |-> JStr(st.todos[i].title),
                              completed |-> JBool(st.todos[i].completed),
                              createdAt |-> StringifyNumber(st.todos[i].createdAt),
                              completedAt |-> StringifyNullable(st.todos[i].completedAt)])]),
          sequence |-> StringifyNumber(st.sequence),
          completedLog |-> JArr(<<>> \o [i \in 1..Len(st.completedLog) |->
                        JObj([id |-> JStr(st.completedLog[i].id),
                              title |-> JStr(st.completedLog[i].title),
                              completedAt |-> StringifyNumber(st.completedLog[i].completedAt)])]),
          activity |-> JArr(<<>> \o [i \in 1..Len(st.activity) |->
                        JObj([id |-> JStr(st.activity[i].id),
                              type |-> JStr(TypeName(st.activity[i].type)),
                              title |-> JStr(st.activity[i].title),
                              at |-> StringifyNumber(st.activity[i].at)])])])

\* The storage medium after saveTodoState(state, storageKey)
saveTodoState(store, st, storageKey) ==
    [store EXCEPT ![storageKey] = JsonText(stringifyPayload(st))]

(***************************************************************************)
(* The session: App.tsx                                                    *)
(***************************************************************************)
VARIABLES
    state,              \* useState<TodoAppState>: todos, sequence, completedLog, activity
    inputValue,         \* useState: the text of the input field
    throwAnimation,     \* useState<ThrowAnimation | null>: Null or Some([id, todoId])
    animationSequence,  \* useRef: the last animation id handed out
    timeouts,           \* the pending window.setTimeout callbacks, in scheduling order
    storage,            \* window.localStorage: storage key -> stored text
    view,               \* the committed render: the todos and throw animation the
                        \* buttons on screen were rendered from
    dirty,              \* a state update made by a timer callback awaits its render
    now,                \* Date.now()
    ops,                \* the number of user intents handled so far
    event,              \* the last intent or timer callback handled; for a toggle,
                        \* with the task as it was before it (Null if absent)
    trimmed             \* the entries the last cut of the activity feed removed (a set)

vars == <<state, inputValue, throwAnimation, animationSequence, timeouts, storage,
          view, dirty, now, ops, event, trimmed>>

DeleteDelay == 620

ThrowClearDelay == 950

\* The storage keys of the model: the base key and two namespaced keys.
Usernames == {<<"a">>, <<" ", "B">>}

Keys == {TODO_STORAGE_KEY} \cup {getTodoStorageKeyForUser(u) : u \in Usernames}

Ids(todos) == {todos[i].id : i \in 1..Len(todos)}

Elements(s) == {s[i] : i \in 1..Len(s)}

\* A faulty Math.round that drops the fraction: C18 fails with it.
MathFloor(num, den) == num \div den

\* Math.round(num / den) for num >= 0 and den > 0: the nearest integer, the
\* upper one of two that are equally near
MathRound(num, den) == (2 * num + den) \div (2 * den)

\* The statistics of the Insights panel.  completedToday depends on the
\* local calendar day and is not modelled.
insightStats(st) ==
    LET total == Len(st.todos)
        completed == Cardinality({i \in 1..Len(st.todos) : st.todos[i].completed})
    IN  [total |-> total,
         completed |-> completed,
         active |-> total - completed,
         completionRate |-> IF total = 0 THEN 0 ELSE MathRound(completed * 100, total),
         lastCompleted |-> IF st.completedLog = <<>> THEN Null
                           ELSE Some(st.completedLog[1])]

\* What the component renders: state.todos.map(...) with isThrowing, and
\* the statistics
Render(st, anim) == [todos |-> st.todos, throwing |-> anim, stats |-> insightStats(st)]

\* The entries of the list before that are no longer in the list after
Dropped(before, after) == Elements(before) \ Elements(after)

(***************************************************************************)
(* Stored texts a session may start from.                                  *)
(***************************************************************************)
StoredTodo(id, title, completed, createdAt, completedAt) ==
    JObj([id |-> JStr(id), title |-> JStr(title), completed |-> JBool(completed),
          createdAt |-> JNum(createdAt), completedAt |-> completedAt])

StoredLogEntry(id, title, completedAt) ==
    JObj([id |-> JStr(id), title |-> JStr(title), completedAt |-> JNum(completedAt)])

StoredActivity(id, type, title, at) ==
    JObj([id |-> JStr(id), type |-> JStr(type), title |-> JStr(title), at |-> JNum(at)])

StoredPayload(version, todos, sequence, completedLog, activity) ==
    JsonText(JObj([version |-> version, todos |-> JArr(todos), sequence |-> sequence,
                   completedLog |-> JArr(completedLog), activity |-> JArr(activity)]))

\* The stored tasks were created before the session's clock starts at 1.
TodoA == StoredTodo(<<"a">>, <<"a">>, FALSE, 0, JNull)

TodoB == StoredTodo(<<"B">>, <<" ", "a">>, TRUE, 0, JNum(0))

\* completed, with no completedAt
TodoNoStamp == JObj([id |-> JStr(<<"a">>), title |-> JStr(<<"a">>),
                     completed |-> JBool(TRUE), createdAt |-> JNum(0)])

\* createdAt written as 1e999
TodoInf == StoredTodo(<<"c">>, <<"a">>, FALSE, Infinity, JNull)

\* a record coerceTodos discards: its title is blank
TodoBlank == StoredTodo(<<"d">>, <<" ">>, FALSE, 0, JNull)

StoredTodoLists ==
    {<<>>, <<TodoA>>, <<TodoA, TodoB>>, <<TodoB, TodoA>>, <<TodoA, TodoA>>,
     <<TodoNoStamp>>, <<TodoInf>>, <<TodoBlank, TodoB>>}

SessionBlobs ==
    {NoItem, GarbageText}
    \cup {StoredPayload(JNum(2), l, JNum(0), <<>>, <<>>) : l \in StoredTodoLists}
    \cup {StoredPayload(JNum(2), <<>>, JNum(8), <<>>, <<>>),
          StoredPayload(JNum(2), <<>>, JNum(Huge), <<>>, <<>>),
          StoredPayload(JNum(1), <<TodoA>>, JNum(1),
                        <<StoredLogEntry(<<"a">>, <<"a">>, 1)>>, <<>>),
          StoredPayload(JNum(3), <<TodoA>>, JNum(1), <<>>, <<>>),
          StoredPayload(JNum(2), <<TodoB>>, JNull,
                        <<StoredLogEntry(<<"B">>, <<"a">>, 1), StoredLogEntry(<<"a">>, <<"a">>, 2)>>,
                        <<StoredActivity(<<"a">>, TypeName("added"), <<"a">>, 1),
                          StoredActivity(<<"c">>, TypeName("completed"), <<"a">>, 1),
                          StoredActivity(<<"B">>, <<"a">>, <<"a">>, 2)>>)}

\* The texts typed into the input field
InputTitles == {<<" ">>, <<" ", "a", " ">>}

(***************************************************************************)
(* Initial state: the component is mounted.  useState's initializer has    *)
(* loaded the state, the first render is committed and the mount effect    *)
(* has saved the loaded state.                                             *)
(***************************************************************************)
InitFrom(blob) ==
    LET store == [k \in Keys |-> IF k = TODO_STORAGE_KEY THEN blob ELSE NoItem]
        loaded == loadTodoState(store, TODO_STORAGE_KEY)
    IN  /\ state = loaded
        /\ storage = saveTodoState(store, loaded, TODO_STORAGE_KEY)
        /\ view = Render(loaded, Null)
        /\ inputValue = <<>>
        /\ throwAnimation = Null
        /\ animationSequence = 0
        /\ timeouts = <<>>
        /\ dirty = FALSE
        /\ now = 1
        /\ ops = 0
        /\ event = [kind |-> "mount", id |-> <<>>, applied |-> TRUE]
        /\ trimmed = IF parseState(blob) # Null /\ Field(blob.v, "version").n = 2
                     THEN Dropped(activityBeforeSlice(Field(blob.v, "activity")), loaded.activity)
                     ELSE {}

Init == \E blob \in SessionBlobs : InitFrom(blob)

(***************************************************************************)
(* Event handlers.  A click, submit or change event is a discrete event:   *)
(* React renders its state updates, and runs the save effect of line 115,  *)
(* before the next event is handled.  An update made by a timer callback   *)
(* is rendered later (Commit).                                             *)
(***************************************************************************)
\* useEffect(() => saveTodoState(state), [state]) after a render of st
Committed(st, anim) ==
    /\ view' = Render(st, anim)
    /\ storage' = IF st # state \/ dirty THEN saveTodoState(storage, st, TODO_STORAGE_KEY)
                  ELSE storage
    /\ dirty' = FALSE

\* onChange of the input field
handleChange(value) ==
    /\ value # inputValue
    /\ inputValue' = value
    /\ Committed(state, throwAnimation)
    /\ UNCHANGED <<state, throwAnimation, animationSequence, timeouts, now, ops,
                   event, trimmed>>

\* Null, or Some(todo): the task handleSubmit builds from the input
submittedTodo(current, title, createdAt) ==
    createTodo(NumberToString(createdAt) \o <<"-">> \o NumberToString(plusOne(current.sequence)),
               title, createdAt)

\* The activity entry handleSubmit records for the task todo
submittedActivity(current, todo, createdAt) ==
    createActivity("added", todo.title, createdAt,
                   todo.id \o <<"-">> \o NumberToString(plusOne(current.sequence)))

\* The state the updater of handleSubmit returns
submitted(current, title, createdAt) ==
    LET todo == submittedTodo(current, title, createdAt)
    IN  IF todo = Null THEN current
        ELSE [current EXCEPT
                !.todos = addTodo(current.todos, todo[1]),
                !.sequence = plusOne(current.sequence),
                !.activity = prependActivity(current.activity,
                                 submittedActivity(current, todo[1], createdAt))]

handleSubmit ==
    /\ ops < MaxOps
    /\ state' = submitted(state, inputValue, now)
    /\ inputValue' = <<>>
    /\ Committed(state', throwAnimation)
    /\ ops' = ops + 1
    /\ event' = [kind |-> "submit", id |-> inputValue,
                 applied |-> submittedTodo(state, inputValue, now) # Null]
    /\ trimmed' = IF submittedTodo(state, inputValue, now) = Null THEN {}
                  ELSE Dropped(<<submittedActivity(state,
                                     submittedTodo(state, inputValue, now)[1], now)>>
                               \o state.activity, state'.activity)
    /\ UNCHANGED <<throwAnimation, animationSequence, timeouts, now>>

\* current.todos.find((entry) => entry.id === id): Null or Some(todo)
find(todos, id) ==
    IF id \in Ids(todos)
    THEN Some(todos[SetMin({i \in 1..Len(todos) : todos[i].id = id})])
    ELSE Null

\* A faulty entry that reports every toggle as a completion: C19 fails with it.
toggledActivityAlwaysCompleted(existing, now0) ==
    createActivity("completed", existing.title, now0, existing.id)

\* The activity entry handleToggle records for the task it found
toggledActivity(existing, now0) ==
    createActivity(IF ~existing.completed THEN "completed" ELSE "reopened",
                   existing.title, now0, existing.id)

\* A faulty updater that trusts the rendered task instead of looking it up
\* in the current list: C7 fails with it.
toggledUnguarded(current, todo, now0) ==
    [current EXCEPT
        !.todos = toggleTodo(current.todos, todo.id, now0),
        !.completedLog =
            IF ~todo.completed
            THEN prependCompletedLog(current.completedLog,
                     [id |-> todo.id, title |-> todo.title, completedAt |-> now0])
            ELSE current.completedLog,
        !.activity = prependActivity(current.activity, toggledActivity(todo, now0))]

\* A faulty updater that keeps the completed log a mirror of the completed
\* tasks, removing a task's entries when it is reopened: C9 fails with it.
toggledMirror(current, todo, now0) ==
    LET existing == find(current.todos, todo.id)
    IN  IF existing = Null THEN current
        ELSE [current EXCEPT
                !.todos = toggleTodo(current.todos, todo.id, now0),
                !.completedLog =
                    IF ~existing[1].completed
                    THEN prependCompletedLog(current.completedLog,
                             [id |-> existing[1].id, title |-> existing[1].title,
                              completedAt |-> now0])
                    ELSE filter(current.completedLog,
                                {i \in 1..Len(current.completedLog) :
                                    current.completedLog[i].id # todo.id}),
                !.activity = prependActivity(current.activity,
                                 toggledActivity(existing[1], now0))]

\* The state the updater of handleToggle returns, todo being the task the
\* clicked button was rendered for
toggled(current, todo, now0) ==
    LET existing == find(current.todos, todo.id)
    IN  IF existing = Null THEN current
        ELSE [current EXCEPT
                !.todos = toggleTodo(current.todos, todo.id, now0),
                !.completedLog =
                    IF ~existing[1].completed
                    THEN prependCompletedLog(current.completedLog,
                             [id |-> existing[1].id, title |-> existing[1].title,
                              completedAt |-> now0])
                    ELSE current.completedLog,
                !.activity = prependActivity(current.activity,
                                 toggledActivity(existing[1], now0))]

\* A click on the Done/Undo button rendered for todo.  launchFireworks takes
\* the next animation id; its burst is display only and is not modelled.
handleToggle(todo) ==
    /\ ops < MaxOps
    /\ state' = toggled(state, todo, now)
    /\ animationSequence' = IF ~todo.completed THEN animationSequence + 1
                            ELSE animationSequence
    /\ Committed(state', throwAnimation)
    /\ ops' = ops + 1
    /\ event' = [kind |-> "toggle", id |-> todo.id,
                 applied |-> find(state.todos, todo.id) # Null,
                 before |-> find(state.todos, todo.id)]
    /\ trimmed' = IF find(state.todos, todo.id) = Null THEN {}
                  ELSE Dropped(<<toggledActivity(find(state.todos, todo.id)[1], now)>>
                               \o state.activity, state'.activity)
    /\ UNCHANGED <<inputValue, throwAnimation, timeouts, now>>

\* The activity entry a deletion records
deletedActivity(todoId, title, now0) == createActivity("deleted", title, now0, todoId)

\* The state the updater of handleDelete returns
deleted(current, todoId, title, now0) ==
    [current EXCEPT
        !.todos = deleteTodo(current.todos, todoId),
        !.activity = prependActivity(current.activity, deletedActivity(todoId, title, now0))]

\* A click on the Delete button rendered for todo, which is disabled while
\* the throw animation shows that task.  The list item of a rendered task
\* is mounted, so its node is found and the deletion is left to a timer; the
\* timer that hides the trash can is display only and is not modelled.
handleDelete(todo) ==
    /\ ops < MaxOps
    /\ ~(view.throwing # Null /\ view.throwing[1].todoId = todo.id)
    /\ ops' = ops + 1
    /\ IF todo.id \notin Ids(view.todos)
       THEN /\ state' = deleted(state, todo.id, todo.title, now)
            /\ trimmed' = Dropped(<<deletedActivity(todo.id, todo.title, now)>>
                                   \o state.activity, state'.activity)
            /\ event' = [kind |-> "delete", id |-> todo.id,
                         applied |-> todo.id \in Ids(state.todos)]
            /\ Committed(state', throwAnimation)
            /\ UNCHANGED <<throwAnimation, animationSequence, timeouts>>
       ELSE /\ animationSequence' = animationSequence + 1
            /\ throwAnimation' = Some([id |-> animationSequence + 1, todoId |-> todo.id])
            /\ timeouts' = timeouts \o
                   <<[kind |-> "delete", delay |-> DeleteDelay, now |-> now,
                      todoId |-> todo.id, title |-> todo.title,
                      animationId |-> animationSequence + 1],
                     [kind |-> "clear", delay |-> ThrowClearDelay, now |-> now,
                      todoId |-> todo.id, title |-> todo.title,
                      animationId |-> animationSequence + 1]>>
            /\ event' = [kind |-> "delete", id |-> todo.id, applied |-> FALSE]
            /\ Committed(state, throwAnimation')
            /\ UNCHANGED <<state, trimmed>>
    /\ UNCHANGED <<inputValue, now>>

\* Whether the pending timeout i may be the next to fire: the clock has
\* moved on since it was set, and no pending timeout is due before it.
Due(i) ==
    /\ now > timeouts[i].now
    /\ \A j \in 1..(i - 1) : timeouts[j].delay > timeouts[i].delay
    /\ \A j \in (i + 1)..Len(timeouts) :
            ~(timeouts[j].now = timeouts[i].now /\ timeouts[j].delay < timeouts[i].delay)

Without(s, i) == SubSeq(s, 1, i - 1) \o SubSeq(s, i + 1, Len(s))

\* The callback scheduleTimeout(..., 620) of handleDelete runs
timeoutDelete(i) ==
    /\ timeouts[i].kind = "delete"
    /\ Due(i)
    /\ state' = deleted(state, timeouts[i].todoId, timeouts[i].title, timeouts[i].now)
    /\ trimmed' = Dropped(<<deletedActivity(timeouts[i].todoId, timeouts[i].title,
                                             timeouts[i].now)>>
                           \o state.activity, state'.activity)
    /\ event' = [kind |-> "timeoutDelete", id |-> timeouts[i].todoId,
                 applied |-> timeouts[i].todoId \in Ids(state.todos)]
    /\ timeouts' = Without(timeouts, i)
    /\ dirty' = TRUE
    /\ UNCHANGED <<inputValue, throwAnimation, animationSequence, storage, view, now, ops>>

\* The callback scheduleTimeout(..., 950) of handleDelete runs
timeoutClearThrow(i) ==
    /\ timeouts[i].kind = "clear"
    /\ Due(i)
    /\ throwAnimation' = IF throwAnimation # Null
                            /\ throwAnimation[1].id = timeouts[i].animationId
                         THEN Null ELSE throwAnimation
    /\ event' = [kind |-> "timeoutClear", id |-> timeouts[i].todoId,
                 applied |-> throwAnimation' # throwAnimation]
    /\ timeouts' = Without(timeouts, i)
    /\ dirty' = (dirty \/ throwAnimation' # throwAnimation)
    /\ UNCHANGED <<state, inputValue, animationSequence, storage, view, now, ops, trimmed>>

\* React renders the updates the timer callbacks made and runs the save effect
Commit ==
    /\ dirty
    /\ Committed(state, throwAnimation)
    /\ UNCHANGED <<state, inputValue, throwAnimation, animationSequence, timeouts, now,
                   ops, event, trimmed>>

\* Date.now() moves on
Tick ==
    /\ now < MaxNow
    /\ now' = now + 1
    /\ UNCHANGED <<state, inputValue, throwAnimation, animationSequence, timeouts, storage,
                   view, dirty, ops, event, trimmed>>

Next ==
    \/ \E value \in InputTitles : handleChange(value)
    \/ handleSubmit
    \/ \E todo \in Elements(view.todos) : handleToggle(todo)
    \/ \E todo \in Elements(view.todos) : handleDelete(todo)
    \/ \E i \in 1..Len(timeouts) : timeoutDelete(i)
    \/ \E i \in 1..Len(timeouts) : timeoutClearThrow(i)
    \/ Commit
    \/ Tick

Spec == Init /\ [][Next]_vars

\* A session that starts with nothing stored: the empty state
InitEmpty == InitFrom(NoItem)

SpecEmpty == InitEmpty /\ [][Next]_vars

\* A stored feed of one entry more than the cap holds, newest first: the first
\* hundred entries are dated after the session's clock, the others before it.
FullFeed ==
    [i \in 1..(StoredActivityCap + 1) |->
        StoredActivity(NumberToString(1000 - i), TypeName("added"), <<"a">>,
                       IF i <= 100 THEN MaxNow + 1 ELSE 0)]

\* A session that starts from a stored activity feed longer than the cap
InitFull == InitFrom(StoredPayload(JNum(2), <<>>, JNum(0), <<>>, FullFeed))

SpecFull == InitFull /\ [][Next]_vars

\* A stored feed two entries short of the cap
NearFullFeed == SubSeq(FullFeed, 4, StoredActivityCap + 1)

\* A session that starts from a stored activity feed that two entries fill
InitNearFull == InitFrom(StoredPayload(JNum(2), <<>>, JNum(0), <<>>, NearFullFeed))

SpecNearFull == InitNearFull /\ [][Next]_vars

\* A stored completed log of one entry more than the cap holds
FullLog ==
    [i \in 1..(CompletedLogCap + 1) |-> StoredLogEntry(NumberToString(i), <<"a">>, 0)]

\* A session that starts from a stored completed log longer than the cap,
\* with one completed task
InitFullLog == InitFrom(StoredPayload(JNum(2), <<TodoB>>, JNum(0), FullLog, <<>>))

SpecFullLog == InitFullLog /\ [][Next]_vars

(***************************************************************************)
(* The persistence codec on its own: a storage medium that holds any texts *)
(* under the keys, and callers that load and save under any key.           *)
(***************************************************************************)
\* A stored log entry and a stored activity entry that pass the decoder
LogA == StoredLogEntry(<<"a">>, <<" ", "a">>, 1)

ActivityA == StoredActivity(<<"a">>, TypeName("added"), <<"a", " ">>, 1)

\* Stored tasks the decoder must discard or repair: a null, a number, an
\* array, a record whose id is a number, a record whose completedAt is a text
BadTodos ==
    <<JNull, JNum(1), JArr(<<>>),
      JObj([id |-> JNum(1), title |-> JStr(<<"a">>), completed |-> JBool(FALSE),
            createdAt |-> JNum(0)]),
      StoredTodo(<<"c">>, <<"a">>, TRUE, 0, JStr(<<"1">>))>>

\* Stored log entries of which only LogA is kept: a blank title, a completedAt
\* written as 1e999, a completedAt that is a text, a null
BadLog ==
    <<StoredLogEntry(<<"a">>, <<" ">>, 1), StoredLogEntry(<<"a">>, <<"a">>, Infinity),
      JObj([id |-> JStr(<<"a">>), title |-> JStr(<<"a">>), completedAt |-> JStr(<<"1">>)]),
      JNull, LogA>>

\* Stored activity entries of which only ActivityA is kept: an unknown type,
\* a blank title, an `at` written as 1e999, a number
BadActivity ==
    <<StoredActivity(<<"a">>, <<"a">>, <<"a">>, 1),
      StoredActivity(<<"a">>, TypeName("added"), <<" ">>, 1),
      StoredActivity(<<"a">>, TypeName("added"), <<"a">>, Infinity),
      JNum(1), ActivityA>>

\* The texts the base key may hold
StoredTexts ==
    {NoItem, EmptyText, GarbageText,
     JsonText(JNull), JsonText(JNum(2)), JsonText(JStr(<<"a">>)), JsonText(JArr(<<>>)),
     JsonText(JObj([todos |-> JArr(<<TodoA>>), sequence |-> JNum(1)])),
     JsonText(JObj([version |-> JStr(<<"2">>), todos |-> JArr(<<TodoA>>)])),
     JsonText(JObj([version |-> JNum(2)])),
     JsonText(JObj([version |-> JNum(2), todos |-> JNum(1), sequence |-> JStr(<<"1">>),
                    completedLog |-> JObj([id |-> JStr(<<"a">>)]), activity |-> JNull])),
     StoredPayload(JNum(0), <<TodoA>>, JNum(1), <<LogA>>, <<ActivityA>>),
     StoredPayload(JNum(3), <<TodoA>>, JNum(1), <<LogA>>, <<ActivityA>>),
     StoredPayload(JNum(1), <<TodoA, TodoB>>, JNum(2), <<LogA>>, <<ActivityA>>),
     StoredPayload(JNum(1), <<TodoInf>>, JNum(1), <<>>, <<>>),
     StoredPayload(JNum(2), <<TodoB, TodoA>>, JNum(2), <<LogA>>, <<ActivityA>>),
     StoredPayload(JNum(2), BadTodos \o <<TodoB>>, JNum(Infinity), BadLog, BadActivity)}

\* The texts a namespaced key may hold
UserTexts ==
    {NoItem, GarbageText,
     StoredPayload(JNum(3), <<TodoA>>, JNum(1), <<>>, <<>>),
     StoredPayload(JNum(2), <<TodoA>>, JNum(1), <<LogA>>, <<ActivityA>>)}

InitStorage ==
    /\ storage \in {s \in [Keys -> StoredTexts \cup UserTexts] :
                        \A k \in Keys \ {TODO_STORAGE_KEY} : s[k] \in UserTexts}
    /\ \E k \in Keys :
        /\ state = loadTodoState(storage, k)
        /\ event = [kind |-> "load", id |-> k, applied |-> TRUE]
    /\ view = Render(state, Null)
    /\ inputValue = <<>>
    /\ throwAnimation = Null
    /\ animationSequence = 0
    /\ timeouts = <<>>
    /\ dirty = FALSE
    /\ now = 1
    /\ ops = 0
    /\ trimmed = {}

\* A caller runs loadTodoState(storageKey)
Load(storageKey) ==
    /\ ops < MaxOps
    /\ state' = loadTodoState(storage, storageKey)
    /\ view' = Render(state', Null)
    /\ ops' = ops + 1
    /\ event' = [kind |-> "load", id |-> storageKey, applied |-> TRUE]
    /\ UNCHANGED <<inputValue, throwAnimation, animationSequence, timeouts, storage, dirty,
                   now, trimmed>>

\* A caller runs saveTodoState(state, storageKey)
Save(storageKey) ==
    /\ ops < MaxOps
    /\ storage' = saveTodoState(storage, state, storageKey)
    /\ ops' = ops + 1
    /\ event' = [kind |-> "save", id |-> storageKey, applied |-> TRUE]
    /\ UNCHANGED <<state, inputValue, throwAnimation, animationSequence, timeouts, view,
                   dirty, now, trimmed>>

NextStorage ==
    \/ \E k \in Keys : Load(k)
    \/ \E k \in Keys : Save(k)

SpecStorage == InitStorage /\ [][NextStorage]_vars

(***************************************************************************)
(* Claims.                                                                 *)
(***************************************************************************)
\* The step taken is the handling of a user intent of the given kind
Handled(kind) == ops' = ops + 1 /\ event'.kind = kind

\* The step taken is the run of a deletion timer callback
DeletionRan == Len(timeouts') < Len(timeouts) /\ event'.kind = "timeoutDelete"

C2_NewestFirst ==
    [][(/\ Handled("submit")
        /\ event'.applied
        /\ \A i \in 1..Len(state.todos) : state.todos[i].createdAt <= now)
       => state'.todos[1].id =
              NumberToString(now) \o <<"-">> \o NumberToString(state'.sequence)]_vars

\* C3: saving the state and loading it under the same key yields the state,
\* equal in tasks, sequence, completedLog and activity, order included.
C3_RoundTrip ==
    \A k \in Keys : loadTodoState(saveTodoState(storage, state, k), k) = state

\* A state worth the round trip: a completed task, a log entry and a feed.
C3_Witness ==
    /\ \E i \in 1..Len(state.todos) : state.todos[i].completed
    /\ Len(state.completedLog) >= 1
    /\ Len(state.activity) >= 2

\* C4: every task has completedAt present if and only if it is completed.
C4_StampIffCompleted ==
    \A i \in 1..Len(state.todos) :
        (state.todos[i].completedAt # Null) <=> state.todos[i].completed

\* C5: no two tasks of the task list have the same id.
C5_UniqueIds ==
    \A i, j \in 1..Len(state.todos) : i # j => state.todos[i].id # state.todos[j].id

\* C6: an Add whose title is empty after trimming leaves tasks, sequence,
\* completedLog and activity as they were; an accepted Add stores a task
\* whose title is the trimmed input.
C6_BlankRejected ==
    [][Handled("submit") =>
        IF \A i \in 1..Len(inputValue) : inputValue[i] = " "
        THEN state' = state
        ELSE /\ Len(state'.todos) = Len(state.todos) + 1
             /\ \E i \in 1..Len(state'.todos) :
                    /\ state'.todos[i].id =
                            NumberToString(now) \o <<"-">> \o NumberToString(state'.sequence)
                    /\ state'.todos[i].title # <<>>
                    /\ Head(state'.todos[i].title) # " "
                    /\ state'.todos[i].title[Len(state'.todos[i].title)] # " "
                    /\ \E pre, post \in 0..Len(inputValue) :
                            /\ pre + Len(state'.todos[i].title) + post = Len(inputValue)
                            /\ state'.todos[i].title =
                                   SubSeq(inputValue, pre + 1, Len(inputValue) - post)
                            /\ \A k \in 1..pre : inputValue[k] = " "
                            /\ \A k \in (Len(inputValue) - post + 1)..Len(inputValue) :
                                   inputValue[k] = " "]_vars

\* A submit of a title made of white space only has been rejected.
C6_Witness ==
    /\ event.kind = "submit" /\ ~event.applied
    /\ event.id # <<>>

\* C7: a Toggle of a task id that is not in the task list leaves tasks,
\* sequence, completedLog and activity as they were.
C7_ToggleAbsentNoOp ==
    [][(Handled("toggle") /\ event'.id \notin Ids(state.todos)) => state' = state]_vars

\* A toggle button rendered before its task was deleted has been clicked.
C7_Witness ==
    /\ event.kind = "toggle" /\ ~event.applied
    /\ event.id \notin Ids(state.todos)

\* C8: a Delete of a task id that is not in the task list when the deletion
\* is applied leaves tasks, sequence, completedLog and activity as they were.
C8_DeleteAbsentNoOp ==
    [][(DeletionRan /\ event'.id \notin Ids(state.todos)) => state' = state]_vars

\* C9: from the empty state and below the cap, completedLog gains exactly
\* the entry (task id, task title, now) on a toggle that completes a task,
\* and is left as it is by every other step: a reopening toggle, a delete,
\* an add.
C9_LogIsHistory ==
    [][Len(state.completedLog) < CompletedLogCap =>
        IF /\ Handled("toggle")
           /\ \E i \in 1..Len(state.todos) :
                state.todos[i].id = event'.id /\ ~state.todos[i].completed
        THEN \E p \in 1..Len(state'.completedLog) :
                /\ Without(state'.completedLog, p) = state.completedLog
                /\ state'.completedLog[p].id = event'.id
                /\ state'.completedLog[p].completedAt = now
                /\ \E i \in 1..Len(state.todos) :
                     /\ state.todos[i].id = event'.id
                     /\ state.todos[i].title = state'.completedLog[p].title
        ELSE state'.completedLog = state.completedLog]_vars

\* A completed task has been reopened and the log still holds its entry.
C9_Witness ==
    /\ event.kind = "toggle" /\ event.applied
    /\ \E i \in 1..Len(state.todos) :
            state.todos[i].id = event.id /\ ~state.todos[i].completed
    /\ \E p \in 1..Len(state.completedLog) : state.completedLog[p].id = event.id

\* C10: the activity feed never holds more than 200 entries, and an entry
\* the cap drops is not later than any entry that is kept.
C10_FeedCapped ==
    /\ Len(state.activity) <= 200
    /\ \A d \in trimmed : \A i \in 1..Len(state.activity) : d.at <= state.activity[i].at

\* An add to a full feed has pushed an entry out.
C10_Witness ==
    /\ event.kind = "submit" /\ event.applied
    /\ Len(state.activity) = 200
    /\ trimmed # {}

\* C11: in every reachable state, a state just loaded from a stored blob
\* included, completedLog has at most 300 entries.
C11_LogCapped == Len(state.completedLog) <= 300

\* A title that is not empty and has no white space at either end
IsTrimmedTitle(s) == s # <<>> /\ s[1] # " " /\ s[Len(s)] # " "

IsString(s) == DOMAIN s = 1..Len(s) /\ \A i \in 1..Len(s) : s[i] \in DOMAIN CodeUnit \cup {"b", ":"}

\* A number or null, the number being finite
IsFiniteOrNull(v) == v = Null \/ (Len(v) = 1 /\ v[1] \in Int /\ isFinite(v[1]))

WellFormedState(st) ==
    /\ st.sequence \in Int /\ isFinite(st.sequence)
    /\ \A i \in 1..Len(st.todos) :
            /\ DOMAIN st.todos[i] = {"id", "title", "completed", "createdAt", "completedAt"}
            /\ IsString(st.todos[i].id)
            /\ IsString(st.todos[i].title) /\ IsTrimmedTitle(st.todos[i].title)
            /\ st.todos[i].completed \in BOOLEAN
            /\ st.todos[i].createdAt \in Int
            /\ IsFiniteOrNull(st.todos[i].completedAt)
    /\ \A i \in 1..Len(st.completedLog) :
            /\ DOMAIN st.completedLog[i] = {"id", "title", "completedAt"}
            /\ IsString(st.completedLog[i].id)
            /\ IsString(st.completedLog[i].title) /\ IsTrimmedTitle(st.completedLog[i].title)
            /\ st.completedLog[i].completedAt \in Int /\ isFinite(st.completedLog[i].completedAt)
    /\ \A i \in 1..Len(st.activity) :
            /\ DOMAIN st.activity[i] = {"id", "type", "title", "at"}
            /\ IsString(st.activity[i].id)
            /\ st.activity[i].type \in {"added", "completed", "reopened", "deleted"}
            /\ IsString(st.activity[i].title) /\ IsTrimmedTitle(st.activity[i].title)
            /\ st.activity[i].at \in Int /\ isFinite(st.activity[i].at)

\* C12: whatever the storage medium holds under the keys, the state
\* loadTodoState returns is well formed: tasks, completedLog and activity are
\* lists of well-typed records with non-empty trimmed titles, and sequence is
\* a finite number.
C12_LoadWellFormed ==
    /\ WellFormedState(state)
    /\ \A k \in Keys : WellFormedState(loadTodoState(storage, k))

\* A load has kept some records of a stored text and discarded or repaired
\* others: the text holds more tasks than were loaded and a sequence that is
\* not finite.
C12_Witness ==
    /\ event.kind = "load" /\ ops > 0
    /\ storage[event.id].kind = "json"
    /\ Field(storage[event.id].v, "todos").t = "arr"
    /\ Len(Field(storage[event.id].v, "todos").a) > Len(state.todos)
    /\ Field(storage[event.id].v, "sequence") = JNum(Infinity)
    /\ state.todos # <<>> /\ state.completedLog # <<>> /\ state.activity # <<>>

\* The stored text is not parsable, or it has no version, or a version that
\* is not a number, or a version other than 1 and 2
Undecodable(raw) ==
    \/ raw.kind \in {"empty", "garbage"}
    \/ /\ raw.kind = "json"
       /\ \/ Field(raw.v, "version").t # "num"
          \/ Field(raw.v, "version").n \notin {1, 2}

\* C13 as stated: a load of a key whose stored text is unparsable, or has a
\* missing, non-numeric or unknown version, yields the default empty state,
\* for every key and whatever the other keys hold.
C13_UndecodableGivesDefault ==
    [][(Handled("load") /\ Undecodable(storage[event'.id])) => state' = DEFAULT_STATE]_vars

\* C13 as amended: such a load yields the default empty state when the key is
\* the base key, or when the base key holds nothing or holds such a text too;
\* a load of a namespaced key while the base key holds a decodable text
\* yields the state decoded from the text of the base key.
C13_UndecodableFallsBack ==
    [][(Handled("load") /\ Undecodable(storage[event'.id])) =>
        IF /\ event'.id # TODO_STORAGE_KEY
           /\ storage[TODO_STORAGE_KEY].kind = "json"
           /\ ~Undecodable(storage[TODO_STORAGE_KEY])
        THEN state' = loadTodoState(storage, TODO_STORAGE_KEY)
        ELSE state' = DEFAULT_STATE]_vars

\* A namespaced key holding an undecodable text has been loaded and the
\* state came from the base key.
C13_Witness ==
    /\ event.kind = "load" /\ ops > 0
    /\ event.id # TODO_STORAGE_KEY
    /\ Undecodable(storage[event.id])
    /\ state # DEFAULT_STATE

\* The stored text is a payload of the legacy version 1
IsLegacy(raw) == raw.kind = "json" /\ Field(raw.v, "version") = JNum(1)

\* C14: decoding a version-1 text yields empty completedLog and activity,
\* whatever the text carries, and saving that state (as version 2) and
\* loading it again yields the same tasks and sequence and again empty
\* completedLog and activity.
C14_MigrationIdempotent ==
    \A k \in Keys :
        IsLegacy(storage[k]) =>
            LET first == loadTodoState(storage, k)
                second == loadTodoState(saveTodoState(storage, first, k), k)
            IN  /\ first.completedLog = <<>> /\ first.activity = <<>>
                /\ second.todos = first.todos
                /\ second.sequence = first.sequence
                /\ second.completedLog = <<>> /\ second.activity = <<>>

\* Usernames as typed: blank ones, and the usernames of the keys with and
\* without white space around them
TypedUsernames == Usernames \cup {<<>>, <<" ">>, <<"a", " ">>}

\* The key holds nothing, or a text that does not decode
NothingDecodable(raw) == raw.kind = "none" \/ Undecodable(raw)

\* C15 as stated: for two usernames whose trimmed, lower-cased forms differ,
\* one of which may be blank, saving a state under the key of one never
\* changes the state loadTodoState returns for the key of the other.
C15_Isolated ==
    [][\A u1, u2 \in TypedUsernames :
        (/\ normalizeUsernameForKey(u1) # normalizeUsernameForKey(u2)
         /\ Handled("save")
         /\ event'.id = getTodoStorageKeyForUser(u1))
        => loadTodoState(storage', getTodoStorageKeyForUser(u2))
               = loadTodoState(storage, getTodoStorageKeyForUser(u2))]_vars

\* C15 as amended: such a save never changes the text stored under the key
\* of the other username, and never changes the state loadTodoState returns
\* for it, except when the saving username is blank and the key of the
\* other username holds nothing decodable: the load of the other username
\* then returns what the base key now holds.
C15_IsolatedButForFallback ==
    [][\A u1, u2 \in TypedUsernames :
        (/\ normalizeUsernameForKey(u1) # normalizeUsernameForKey(u2)
         /\ Handled("save")
         /\ event'.id = getTodoStorageKeyForUser(u1))
        => /\ storage'[getTodoStorageKeyForUser(u2)] = storage[getTodoStorageKeyForUser(u2)]
           /\ IF /\ normalizeUsernameForKey(u1) = <<>>
                 /\ NothingDecodable(storage[getTodoStorageKeyForUser(u2)])
              THEN loadTodoState(storage', getTodoStorageKeyForUser(u2))
                       = loadTodoState(storage', TODO_STORAGE_KEY)
              ELSE loadTodoState(storage', getTodoStorageKeyForUser(u2))
                       = loadTodoState(storage, getTodoStorageKeyForUser(u2))]_vars

\* A state with tasks has been saved under the key of one username while
\* the key of another username holds a different, decodable state.
C15_Witness ==
    /\ event.kind = "save"
    /\ event.id # TODO_STORAGE_KEY
    /\ state.todos # <<>>
    /\ \E k \in Keys \ {event.id, TODO_STORAGE_KEY} :
            /\ ~NothingDecodable(storage[k])
            /\ loadTodoState(storage, k) # loadTodoState(storage, event.id)

\* C16: sequence grows by exactly 1 on every accepted Add and is unchanged
\* by every other step: a rejected Add, a Toggle, a Delete.  It therefore
\* never decreases.
C16_SequenceGrows ==
    [][IF Handled("submit") /\ \E i \in 1..Len(inputValue) : inputValue[i] # " "
       THEN state'.sequence = state.sequence + 1
       ELSE state'.sequence = state.sequence]_vars

\* The step taken is the second of two consecutive applied toggles of one
\* task: the last state change was an applied toggle of the same task
SecondToggle ==
    /\ Handled("toggle") /\ event'.applied
    /\ event.kind = "toggle" /\ event.applied /\ event.id = event'.id

\* C17 as stated: two consecutive toggles of a task return both its
\* completed flag and its completedAt to their original values, whether the
\* task starts incomplete or completed.
C17_ToggleInvolutive ==
    [][SecondToggle =>
        \A i \in 1..Len(state'.todos) :
            state'.todos[i].id = event'.id =>
                /\ state'.todos[i].completed = event.before[1].completed
                /\ state'.todos[i].completedAt = event.before[1].completedAt]_vars

\* C17 as amended: two consecutive toggles of a task return its completed
\* flag to its original value; its completedAt returns to its original
\* value, absent, if the task started incomplete, and is the time of the
\* second toggle if the task started completed.
C17_ToggleInvolutiveOnFlag ==
    [][SecondToggle =>
        \A i \in 1..Len(state'.todos) :
            state'.todos[i].id = event'.id =>
                /\ state'.todos[i].completed = event.before[1].completed
                /\ IF event.before[1].completed
                   THEN state'.todos[i].completedAt = Some(now)
                   ELSE /\ state'.todos[i].completedAt = Null
                        /\ event.before[1].completedAt = Null]_vars

\* A task that was completed has been reopened and completed again, at a
\* time later than its first completion.
C17_Witness ==
    /\ event.kind = "toggle" /\ event.applied
    /\ ~event.before[1].completed
    /\ \E i \in 1..Len(state.activity) :
            /\ state.activity[i].type = "reopened"
            /\ state.activity[i].id =
                    NumberToString(state.activity[i].at) \o <<"-">> \o event.id
                        \o <<"-">> \o TypeName("reopened")
    /\ \E i \in 1..Len(state.todos) :
            /\ state.todos[i].id = event.id
            /\ state.todos[i].completedAt = Some(now)
            /\ now > 1

\* The number of completed tasks among the rendered tasks
CompletedCount == Cardinality({i \in 1..Len(view.todos) : view.todos[i].completed})

\* C18: completionRate is 0 when there are no tasks and otherwise is
\* completedCount / total * 100 rounded to the nearest integer (33 for 1 of
\* 3), so it lies in 0..100; activeCount is total minus completedCount and
\* is never negative.
C18_CompletionRate ==
    /\ view.stats.total = Len(view.todos)
    /\ view.stats.completed = CompletedCount
    /\ Len(view.todos) = 0 => view.stats.completionRate = 0
    /\ Len(view.todos) > 0 =>
            /\ 2 * (100 * CompletedCount - view.stats.completionRate * Len(view.todos))
                    <= Len(view.todos)
            /\ 2 * (view.stats.completionRate * Len(view.todos) - 100 * CompletedCount)
                    <= Len(view.todos)
    /\ (Len(view.todos) = 3 /\ CompletedCount = 1) => view.stats.completionRate = 33
    /\ view.stats.completionRate \in 0..100
    /\ view.stats.active = Len(view.todos) - CompletedCount
    /\ view.stats.active >= 0

\* One of three rendered tasks is completed, and the rate shown is 33.
C18_Witness ==
    /\ Len(view.todos) = 3 /\ CompletedCount = 1
    /\ view.stats.completionRate = 33
    /\ ops > 0

\* The number of times x occurs in the list s
Count(x, s) == Cardinality({i \in 1..Len(s) : s[i] = x})

\* The lists a and b hold the same entries the same number of times
SameEntries(a, b) ==
    \/ a = b
    \/ /\ Len(a) = Len(b)
       /\ \A e \in Elements(a) \cup Elements(b) : Count(e, a) = Count(e, b)

\* The entry an applied toggle is to record, given the task as it was: of
\* type completed when the task becomes completed and reopened otherwise
ToggleEntry(task, at) ==
    createActivity(IF task.completed THEN "reopened" ELSE "completed", task.title, at, task.id)

\* The feed after holds the entries of the feed before and entry, once more
GainsEntry(before, after, entry) ==
    /\ Len(after) = Len(before) + 1
    /\ \E p \in 1..Len(after) :
            after[p] = entry /\ SameEntries(Without(after, p), before)

\* C19 as stated: every applied toggle of an existing task records exactly
\* one activity entry, of type completed when the task becomes completed and
\* reopened otherwise, so that the feed grows by one entry with each toggle
\* (by two with two consecutive toggles), in every reachable state.
C19_ToggleGrowsFeed ==
    [][(Handled("toggle") /\ event'.applied) =>
        GainsEntry(state.activity, state'.activity, ToggleEntry(event'.before[1], now))]_vars

\* C19 as amended: an applied toggle of an existing task records exactly one
\* activity entry of that type while the feed holds fewer than 200 entries;
\* when the feed holds 200 entries it still holds 200 after the toggle, made
\* of entries it held and the new entry, which is left out only if no entry
\* kept is older than it.
C19_ToggleGrowsFeedBelowCap ==
    [][(Handled("toggle") /\ event'.applied) =>
        IF Len(state.activity) < 200
        THEN GainsEntry(state.activity, state'.activity, ToggleEntry(event'.before[1], now))
        ELSE /\ Len(state'.activity) = 200
             /\ Elements(state'.activity) \subseteq
                    Elements(state.activity) \cup {ToggleEntry(event'.before[1], now)}
             /\ ToggleEntry(event'.before[1], now) \notin Elements(state'.activity) =>
                    \A i \in 1..Len(state'.activity) :
                        ToggleEntry(event'.before[1], now).at <= state'.activity[i].at]_vars

\* A task has been toggled twice: the first toggle filled the feed, and the
\* second recorded its entry in the full feed, which dropped an older one.
C19_Witness ==
    /\ event.kind = "toggle" /\ event.applied
    /\ Len(state.activity) = 200
    /\ trimmed # {}
    /\ \E i, j \in 1..Len(state.activity) :
            /\ state.activity[i].type = "completed"
            /\ state.activity[j].type = "reopened"

\* C20: in every reachable state the activity feed is ordered by `at`
\* descending, entries of equal `at` by `id` descending (in the collation
\* order or in the code unit order).
C20_FeedOrdered ==
    \A i, j \in 1..Len(state.activity) :
        i < j =>
            \/ state.activity[i].at > state.activity[j].at
            \/ /\ state.activity[i].at = state.activity[j].at
               /\ \/ localeCompare(state.activity[i].id, state.activity[j].id) >= 0
                  \/ ~LexGreater(state.activity[j].id, state.activity[i].id)

\* C21: in every reachable state completedLog is ordered by completedAt
\* non-increasing, so that lastCompleted, its first element, has the greatest
\* completedAt of the log; and right after a task is toggled to completed at
\* a time not earlier than any timestamp of the log, lastCompleted is the
\* entry of that task.
C21_LogOrdered ==
    /\ [](/\ \A i, j \in 1..Len(state.completedLog) :
                i < j => state.completedLog[i].completedAt >= state.completedLog[j].completedAt
          /\ \A i \in 1..Len(state.completedLog) :
                insightStats(state).lastCompleted[1].completedAt
                    >= state.completedLog[i].completedAt)
    /\ [][(/\ Handled("toggle")
           /\ event'.applied
           /\ ~event'.before[1].completed
           /\ \A i \in 1..Len(state.completedLog) : state.completedLog[i].completedAt <= now)
          => insightStats(state').lastCompleted =
                Some([id |-> event'.before[1].id, title |-> event'.before[1].title,
                      completedAt |-> now])]_vars

\* A task has been completed at the very time of the newest entry of a log
\* that another task's entry led, and its entry leads the log now.
C21_Witness ==
    /\ event.kind = "toggle" /\ event.applied /\ ~event.before[1].completed
    /\ Len(state.completedLog) >= 3
    /\ state.completedLog[1].id = event.id
    /\ state.completedLog[2].id # event.id
    /\ state.completedLog[1].completedAt = state.completedLog[2].completedAt
    /\ state.completedLog[3].completedAt < state.completedLog[2].completedAt
    /\ view.stats.lastCompleted = Some(state.completedLog[1])

\* C22: a delete intent is not gated or delayed by animation timers: the
\* task is removed from the task list and the deleted activity entry is
\* recorded in the very step that handles the delete intent, so that no other
\* intent can be applied between the intent and its state transition.
C22_DeleteImmediate ==
    [][Handled("delete") =>
        \E todo \in Elements(view.todos) :
            /\ todo.id = event'.id
            /\ todo.id \notin Ids(state'.todos)
            /\ state' = deleted(state, todo.id, todo.title, now)]_vars

\* The seed createActivity has put into the id of an entry it made: the id
\* of the task the entry is about
SeedOf(entry) ==
    SubSeq(entry.id, Len(NumberToString(entry.at)) + 2,
           Len(entry.id) - Len(TypeName(entry.type)) - 1)

\* C23: for every task, at most one activity entry of type deleted is ever
\* recorded, under every interleaving of delete clicks on that task and on
\* other tasks with the pending deletion timers.
C23_OneDeletedEntry ==
    \A i, j \in 1..Len(state.activity) :
        (i < j /\ state.activity[i].type = "deleted" /\ state.activity[j].type = "deleted")
            => SeedOf(state.activity[i]) # SeedOf(state.activity[j])

\* C24: the state is persisted after every mutation: whenever no save effect
\* is pending, the text stored under the session's key decodes to a state
\* equal to the in-memory state, after any sequence of add, toggle and delete.
C24_Persisted ==
    ~dirty => loadTodoState(storage, TODO_STORAGE_KEY) = state

\* C25: a toggle changes only the completed and completedAt fields of the
\* one task whose id matches: the id, title and createdAt of every task, the
\* completion fields of every other task, the membership and order of the
\* task list, and sequence are unchanged.
C25_ToggleFrame ==
    [][Handled("toggle") =>
        /\ state'.sequence = state.sequence
        /\ Len(state'.todos) = Len(state.todos)
        /\ \A i \in 1..Len(state.todos) :
                /\ state'.todos[i].id = state.todos[i].id
                /\ state'.todos[i].title = state.todos[i].title
                /\ state'.todos[i].createdAt = state.todos[i].createdAt
                /\ state.todos[i].id # event'.id => state'.todos[i] = state.todos[i]
        /\ \A i, j \in 1..Len(state.todos) :
                (i # j /\ state'.todos[i] # state.todos[i])
                    => state'.todos[j] = state.todos[j]]_vars

\* C26: task decoding keeps exactly the valid records: a stored task record
\* is kept if and only if it has a string id, a string title that is not
\* empty after trimming, a boolean completed and a numeric finite createdAt
\* (a createdAt written as 1e999 causes the record to be discarded); each
\* record is judged independently of the others.
C26_KeepsExactlyValid ==
    \A k \in Keys :
        (/\ storage[k].kind = "json"
         /\ storage[k].v.t = "obj"
         /\ Field(storage[k].v, "todos").t = "arr") =>
            LET raw == Field(storage[k].v, "todos").a
                valid == {i \in 1..Len(raw) :
                            /\ raw[i].t = "obj"
                            /\ Field(raw[i], "id").t = "str"
                            /\ Field(raw[i], "title").t = "str"
                            /\ trim(Field(raw[i], "title").s) # <<>>
                            /\ Field(raw[i], "completed").t = "bool"
                            /\ Field(raw[i], "createdAt").t = "num"
                            /\ isFinite(Field(raw[i], "createdAt").n)}
            IN  /\ Len(coerceTodos(JArr(raw))) = Cardinality(valid)
                /\ \A i \in 1..Len(raw) :
                        (coerceTodos(JArr(<<raw[i]>>)) # <<>>) <=> (i \in valid)

====
